---- MODULE Spec2Model ----
(***************************************************************************)
(* Animated route transitions (wheregmis/animated_router).                 *)
(*                                                                         *)
(* Two builds of the orchestrator exist in the repository:                 *)
(*   "main"      src/src/main.rs      pair-based outlet, Tween motion      *)
(*   "will_hide" src/src/will_hide.rs macro-driven outlet, Spring motion   *)
(* Both share the same AnimatedRouterContext state machine.                *)
(*                                                                         *)
(* Specifications:                                                         *)
(*   ApiSpec   the context type and the outlet's resolver driven by any    *)
(*             sequence of calls (set_target_route, settle, target_route,  *)
(*             AnimatedOutlet's match)                                     *)
(*   Spec      the running application: navigation events, renders,        *)
(*             effects and animation frames                                *)
(*   FairSpec  Spec with the scheduler's fairness                          *)
(***************************************************************************)
EXTENDS Integers, FiniteSets, Sequences, TLC

VARIABLES
    build,        \* which orchestrator is compiled: "main" or "will_hide"
    attrs,        \* #[transition(..)] attribute of each Route variant (derive input)
    route,        \* use_route(): the router's current route
    ctx,          \* the AnimatedRouterContext held in the prev_route signal
    requested,    \* history: argument of the latest set_target_route (or the initial route)
    last,         \* history: the latest call, its argument, the context before it, its result
    from_route,   \* AnimatedOutlet's from_route as of its latest render
    mounted,      \* whether FromRouteToCurrent is mounted
    transition,   \* the transition captured by the mounted component's hooks
    motion,       \* the mounted component's use_motion values
    dirty,        \* scopes scheduled for re-render
    effects,      \* use_effect closures scheduled to run
    navs,         \* number of navigation events so far
    animated,     \* history: animate_to has run since the latest target change
    engine        \* one interpolation instance on its own (TweenSpec, SpringSpec)

vars == <<build, attrs, route, ctx, requested, last, from_route, mounted,
          transition, motion, dirty, effects, navs, animated, engine>>

----------------------------------------------------------------------------
(* Bounds *)

\* distinct PageNotFound { route } values
MaxNotFound == 1
\* navigation events per behaviour
MaxNav == 3
\* frames an animation may need to finish
MaxFrames == 2

----------------------------------------------------------------------------
(* Routes: enum Route *)

R(v) == [variant |-> v, route |-> 0]

PageNotFound(p) == [variant |-> "PageNotFound", route |-> p]

LayoutVariants ==
    {"Home", "SlideLeft", "SlideRight", "SlideUp", "SlideDown", "Fade", "Scale"}

RouteVariants == LayoutVariants \cup {"PageNotFound"}

Routes == {R(v) : v \in LayoutVariants} \cup {PageNotFound(p) : p \in 1..MaxNotFound}

NoRoute == [variant |-> "-", route |-> 0]

Builds == {"main", "will_hide"}

\* The routes rendered inside the component that holds AnimatedRouter. In
\* main.rs AnimatedRouter lives in the NavBar layout, which PageNotFound is
\* outside of (#[end_layout]): the context exists only while the router is on a
\* layout route. will_hide.rs wraps its whole outlet (AnimationBuilder).
NavRoutes(b) ==
    IF b = "main" THEN {R(v) : v \in LayoutVariants} ELSE Routes

----------------------------------------------------------------------------
(* enum AnimatedRouterContext<R> and its methods *)

FromTo(from, to) == [tag |-> "FromTo", from |-> from, to |-> to]

In(to) == [tag |-> "In", to |-> to]

Contexts == {In(r) : r \in Routes} \cup {FromTo(f, t) : f \in Routes, t \in Routes}

\* no interpolation instance under study
NoEngine == [mode |-> "-"]

\* mutant: returns the departing route of a transition
target_route_from(self) ==
    CASE self.tag = "FromTo" -> self.from
      [] self.tag = "In"     -> self.to

target_route(self) ==
    CASE self.tag = "FromTo" -> self.to
      [] self.tag = "In"     -> self.to

\* mutant: re-targeting keeps the old departure point
set_target_route_keep_from(self, to) ==
    CASE self.tag = "FromTo" -> FromTo(self.from, to)
      [] self.tag = "In"     -> FromTo(self.to, to)

\* mutant: the settled arm swaps departure and destination
set_target_route_swapped(self, to) ==
    CASE self.tag = "FromTo" -> FromTo(self.to, to)
      [] self.tag = "In"     -> FromTo(to, self.to)

\* mutant: re-targeting only moves the departure point, the destination is kept
set_target_route_stale_to(self, to) ==
    CASE self.tag = "FromTo" -> FromTo(self.to, self.to)
      [] self.tag = "In"     -> FromTo(self.to, to)

\* mutant: re-targeting a transition drops it and lands on the new route
set_target_route_collapse(self, to) ==
    CASE self.tag = "FromTo" -> In(to)
      [] self.tag = "In"     -> FromTo(self.to, to)

set_target_route(self, to) ==
    CASE self.tag = "FromTo" -> FromTo(self.to, to)
      [] self.tag = "In"     -> FromTo(self.to, to)

\* mutant: turns the transition around instead of ending it
settle_turns_back(self) ==
    IF self.tag = "FromTo" THEN FromTo(self.to, self.from) ELSE self

\* mutant: settles on the departing route
settle_on_from(self) ==
    IF self.tag = "FromTo" THEN In(self.from) ELSE self

settle(self) ==
    IF self.tag = "FromTo" THEN In(self.to) ELSE self

----------------------------------------------------------------------------
(* Transition policy: AnimatedOutlet's from_route *)

None == [some |-> FALSE, from |-> NoRoute, transition |-> "-"]

Some(from, variant) == [some |-> TRUE, from |-> from, transition |-> variant]

\* enum TransitionVariant of main.rs (Custom carries a caller-supplied Transform
\* and is never produced by the outlet)
MainVariants == {"SlideLeft", "SlideRight", "SlideUp", "SlideDown", "Fade", "Scale"}

\* enum TransitionVariant of will_hide.rs
WillHideVariants == {"SlideLeft", "SlideRight", "SlideUp", "SlideDown", "Fade"}

\* mutant: the return trip reuses the forward variant instead of the opposite one
OutletMatch_same_direction(c) ==
    CASE c = FromTo(R("Home"), R("SlideLeft"))  -> Some(R("Home"), "SlideLeft")
      [] c = FromTo(R("SlideLeft"), R("Home"))  -> Some(R("SlideLeft"), "SlideLeft")
      [] c = FromTo(R("Home"), R("SlideRight")) -> Some(R("Home"), "SlideRight")
      [] c = FromTo(R("SlideRight"), R("Home")) -> Some(R("SlideRight"), "SlideRight")
      [] c = FromTo(R("Home"), R("SlideUp"))    -> Some(R("Home"), "SlideUp")
      [] c = FromTo(R("SlideUp"), R("Home"))    -> Some(R("SlideUp"), "SlideUp")
      [] c = FromTo(R("Home"), R("SlideDown"))  -> Some(R("Home"), "SlideDown")
      [] c = FromTo(R("SlideDown"), R("Home"))  -> Some(R("SlideDown"), "SlideDown")
      [] c = FromTo(R("Home"), R("Fade"))       -> Some(R("Home"), "Fade")
      [] c = FromTo(R("Fade"), R("Home"))       -> Some(R("Fade"), "Fade")
      [] c = FromTo(R("Home"), R("Scale"))      -> Some(R("Home"), "Scale")
      [] c = FromTo(R("Scale"), R("Home"))      -> Some(R("Scale"), "Scale")
      [] OTHER                                  -> None

\* main.rs: match animated_router() { FromTo(Route::Home {}, Route::SlideLeft {}) => ... }
OutletMatch(c) ==
    CASE c = FromTo(R("Home"), R("SlideLeft"))  -> Some(R("Home"), "SlideLeft")
      [] c = FromTo(R("SlideLeft"), R("Home"))  -> Some(R("SlideLeft"), "SlideRight")
      [] c = FromTo(R("Home"), R("SlideRight")) -> Some(R("Home"), "SlideRight")
      [] c = FromTo(R("SlideRight"), R("Home")) -> Some(R("SlideRight"), "SlideLeft")
      [] c = FromTo(R("Home"), R("SlideUp"))    -> Some(R("Home"), "SlideUp")
      [] c = FromTo(R("SlideUp"), R("Home"))    -> Some(R("SlideUp"), "SlideDown")
      [] c = FromTo(R("Home"), R("SlideDown"))  -> Some(R("Home"), "SlideDown")
      [] c = FromTo(R("SlideDown"), R("Home"))  -> Some(R("SlideDown"), "SlideUp")
      [] c = FromTo(R("Home"), R("Fade"))       -> Some(R("Home"), "Fade")
      [] c = FromTo(R("Fade"), R("Home"))       -> Some(R("Fade"), "Fade")
      [] c = FromTo(R("Home"), R("Scale"))      -> Some(R("Home"), "Scale")
      [] c = FromTo(R("Scale"), R("Home"))      -> Some(R("Scale"), "Scale")
      [] OTHER                                  -> None

\* the ordered pairs main.rs maps explicitly
MappedPairs ==
    {<<R("Home"), R(v)>> : v \in MainVariants} \cup {<<R(v), R("Home")>> : v \in MainVariants}

\* #[transition(..)] on an enum variant: absent, a path (an identifier), or
\* arguments that are no path
Absent == [kind |-> "absent", ident |-> "-"]

Path(i) == [kind |-> "path", ident |-> i]

NotAPath == [kind |-> "other", ident |-> "-"]

NoIdent == "-"

\* Option<String>: the identifier of a #[transition(Ident)] attribute
get_transition_from_attrs(a) ==
    IF a.kind = "path" THEN a.ident ELSE NoIdent

\* the match arm generated for one variant: TransitionVariant::#transition
transition_match_arm(a) ==
    IF get_transition_from_attrs(a) = NoIdent
    THEN "Fade"
    ELSE get_transition_from_attrs(a)

\* the generated fn get_transition(&self) -> TransitionVariant
get_transition(table, r) == transition_match_arm(table[r.variant])

\* the generated fn get_component(&self): the route's own component
get_component(r) == r

\* mutant: the variant is taken from the departing route
OutletMacro_by_origin(table, c) ==
    IF c.tag = "FromTo"
    THEN Some(get_component(c.from), get_transition(table, c.from))
    ELSE None

\* mutant: a settled state is wrapped as well, as a transition onto itself
OutletMacro_wraps_settled(table, c) ==
    IF c.tag = "FromTo"
    THEN Some(get_component(c.from), get_transition(table, c.to))
    ELSE Some(get_component(c.to), get_transition(table, c.to))

\* will_hide.rs: FromTo(from, to) => Some((from.get_component(), to.get_transition()))
OutletMacro(table, c) ==
    IF c.tag = "FromTo"
    THEN Some(get_component(c.from), get_transition(table, c.to))
    ELSE None

\* router_derive: fn get_transition of the impl RouteTransition that the
\* #[transition] attribute macro generates for the annotated enum
RouteTransition(r) ==
    CASE r.variant = "Home"       -> "Fade"
      [] r.variant = "SlideLeft"  -> "SlideLeft"
      [] r.variant = "SlideRight" -> "SlideRight"
      [] r.variant = "SlideUp"    -> "SlideUp"
      [] r.variant = "SlideDown"  -> "SlideDown"
      [] r.variant = "Fade"       -> "Fade"
      [] r.variant = "Scale"      -> "Scale"
      [] OTHER                    -> "Fade"

\* the outlet's match when to.get_transition() is that impl's
OutletTrait(c) ==
    IF c.tag = "FromTo"
    THEN Some(get_component(c.from), RouteTransition(c.to))
    ELSE None

\* Annotations of the Route enum handed to #[derive(RouteTransitions)]
NoAttrs == [v \in RouteVariants |-> Absent]

NamedAttrs ==
    [v \in RouteVariants |-> IF v \in WillHideVariants THEN Path(v) ELSE Absent]

MixedAttrs ==
    [v \in RouteVariants |->
        CASE v = "Home"         -> Path("SlideRight")
          [] v = "PageNotFound" -> NotAPath
          [] v = "Scale"        -> Absent
          [] OTHER              -> Path("SlideUp")]

AttrTables == {NoAttrs, NamedAttrs, MixedAttrs}

\* the outlet's from_route under the compiled build
FromRoute(b, table, c) ==
    IF b = "main" THEN OutletMatch(c) ELSE OutletMacro(table, c)

----------------------------------------------------------------------------
(* AnimatedRouter: the guarded update of the prev_route signal *)

Call(op, arg, pre, ret) == [op |-> op, arg |-> arg, pre |-> pre, ret |-> ret]

\* prev_route.peek().target_route() != &route
route_changed(c, r) == target_route(c) # r

\* mutant: the comparison is made but the new route is never written
RouterUpdate_skipped(c, r) == c

\* mutant: the update is written without comparing with the current target
RouterUpdate_unguarded(c, r) == set_target_route(c, r)

\* if prev_route.peek().target_route() != &route { prev_route.write().set_target_route(route) }
RouterUpdate(c, r) ==
    IF route_changed(c, r) THEN set_target_route(c, r) ELSE c

----------------------------------------------------------------------------
(* FromRouteToCurrent: its use_motion values *)

MotionNames(b) ==
    IF b = "main"
    THEN {"transform", "opacity"}
    ELSE {"from_transform", "to_transform", "from_opacity", "to_opacity"}

\* the motions the settling effect reads
SettleReads(b) ==
    IF b = "main"
    THEN {"transform", "opacity"}
    ELSE {"from_transform", "to_transform"}

\* f32 values are kept in tenths: F(100) is 100.0, Half is 0.5
F(n) == n * 10

Half == F(1) \div 2

\* Transform::new(x, y, scale, rotation)
Transform(x, y, scale, rotation) == [x |-> x, y |-> y, scale |-> scale, rotation |-> rotation]

\* Transform::identity(): no offset, scale 1, no rotation
Identity == Transform(F(0), F(0), F(1), F(0))

\* main.rs: TransitionVariant::get_transform
get_transform(v) ==
    CASE v = "SlideLeft"  -> Transform(F(-100), F(0), F(1), F(0))
      [] v = "SlideRight" -> Transform(F(100), F(0), F(1), F(0))
      [] v = "SlideUp"    -> Transform(F(0), F(-100), F(1), F(0))
      [] v = "SlideDown"  -> Transform(F(0), F(100), F(1), F(0))
      [] v = "Fade"       -> Transform(F(0), F(0), F(0), F(0))
      [] v = "Scale"      -> Transform(F(0), F(0), Half, F(0))

\* main.rs: target_transform of FromRouteToCurrent's first effect
target_transform(v) ==
    CASE v = "SlideLeft"  -> Transform(F(-100), F(0), F(1), F(0))
      [] v = "SlideRight" -> Transform(F(100), F(0), F(1), F(0))
      [] v = "SlideUp"    -> Transform(F(0), F(-100), F(1), F(0))
      [] v = "SlideDown"  -> Transform(F(0), F(100), F(1), F(0))
      [] OTHER            -> get_transform(v)

TransitionConfig(initial_from, final_from, initial_to, final_to) ==
    [initial_from |-> initial_from, final_from |-> final_from,
     initial_to |-> initial_to, final_to |-> final_to]

\* mutant: SlideRight copied from SlideLeft without flipping the signs
get_config_copied(v) ==
    CASE v \in {"SlideLeft", "SlideRight"} ->
            TransitionConfig(Identity, Transform(F(-100), F(0), F(1), F(1)),
                             Transform(F(100), F(0), F(1), F(1)), Identity)
      [] v = "SlideUp" ->
            TransitionConfig(Identity, Transform(F(0), F(-100), F(1), F(1)),
                             Transform(F(0), F(100), F(1), F(1)), Identity)
      [] v = "SlideDown" ->
            TransitionConfig(Identity, Transform(F(0), F(100), F(1), F(1)),
                             Transform(F(0), F(-100), F(1), F(1)), Identity)
      [] v = "Fade" ->
            TransitionConfig(Transform(F(0), F(0), F(1), F(1)),
                             Transform(F(0), F(0), F(1), F(0)),
                             Transform(F(0), F(0), F(1), F(0)),
                             Transform(F(0), F(0), F(1), F(1)))

\* will_hide.rs: TransitionVariant::get_config
get_config(v) ==
    CASE v = "SlideLeft" ->
            TransitionConfig(Identity, Transform(F(-100), F(0), F(1), F(1)),
                             Transform(F(100), F(0), F(1), F(1)), Identity)
      [] v = "SlideRight" ->
            TransitionConfig(Identity, Transform(F(100), F(0), F(1), F(1)),
                             Transform(F(-100), F(0), F(1), F(1)), Identity)
      [] v = "SlideUp" ->
            TransitionConfig(Identity, Transform(F(0), F(-100), F(1), F(1)),
                             Transform(F(0), F(100), F(1), F(1)), Identity)
      [] v = "SlideDown" ->
            TransitionConfig(Identity, Transform(F(0), F(100), F(1), F(1)),
                             Transform(F(0), F(-100), F(1), F(1)), Identity)
      [] v = "Fade" ->
            TransitionConfig(Transform(F(0), F(0), F(1), F(1)),
                             Transform(F(0), F(0), F(1), F(0)),
                             Transform(F(0), F(0), F(1), F(0)),
                             Transform(F(0), F(0), F(1), F(1)))

\* a motion value: where it was created, where it is heading, whether it is
\* moving and for how many more frames
Motion(initial, target, running, left) ==
    [initial |-> initial, target |-> target, running |-> running, left |-> left]

\* the initial value handed to each use_motion
\*   main.rs:      use_motion(Transform::new(0.0, 0.0, 1.0, 1.0)), use_motion(1.0f32)
\*   will_hide.rs: use_motion(config.initial_from), use_motion(config.initial_to),
\*                 use_motion(1.0f32), use_motion(0.0f32)
initial_value(b, v, m) ==
    CASE m = "transform"      -> Transform(F(0), F(0), F(1), F(1))
      [] m = "opacity"        -> F(1)
      [] m = "from_transform" -> get_config(v).initial_from
      [] m = "to_transform"   -> get_config(v).initial_to
      [] m = "from_opacity"   -> F(1)
      [] m = "to_opacity"     -> F(0)

\* the target handed to each animate_to
\*   main.rs:      transform -> target_transform, opacity -> 0.0
\*   will_hide.rs: from_transform -> config.final_from, to_transform -> config.final_to,
\*                 from_opacity -> 0.0, to_opacity -> 1.0
target_value(b, v, m) ==
    CASE m = "transform"      -> target_transform(v)
      [] m = "opacity"        -> F(0)
      [] m = "from_transform" -> get_config(v).final_from
      [] m = "to_transform"   -> get_config(v).final_to
      [] m = "from_opacity"   -> F(0)
      [] m = "to_opacity"     -> F(1)

\* use_motion(initial): created at rest on its initial value
use_motion(b, v) ==
    [m \in MotionNames(b) |-> Motion(initial_value(b, v, m), initial_value(b, v, m), FALSE, 0)]

\* animate_to(target, config): the value starts moving and needs `left` more frames.
\* main.rs gives both values the same 500 ms Tween; will_hide.rs gives the two
\* transforms one displacement and the two opacities another under the same Spring.
\* v is the transition the effect's closure captured when the component was mounted.
animate_to(b, v, dT, dO) ==
    [m \in MotionNames(b) |->
        Motion(initial_value(b, v, m), target_value(b, v, m), TRUE,
               IF b = "main" THEN dT
               ELSE IF m \in {"from_transform", "to_transform"} THEN dT ELSE dO)]

\* one animation frame: every running value advances, and stops when it arrives
tick(ms) ==
    [m \in DOMAIN ms |->
        IF ms[m].running
        THEN Motion(ms[m].initial, ms[m].target, ms[m].left > 1, ms[m].left - 1)
        ELSE ms[m]]

is_running(ms, m) == ms[m].running

\* !transform.is_running() && !opacity.is_running()
\* !from_transform.is_running() && !to_transform.is_running()
animation_finished(b, ms) == \A m \in SettleReads(b) : ~is_running(ms, m)

----------------------------------------------------------------------------
(* Initial state: AnimatedRouter's first render, use_signal(|| In(route)) *)

Init ==
    /\ build \in Builds
    /\ attrs \in IF build = "main" THEN {NoAttrs} ELSE AttrTables
    /\ route \in NavRoutes(build)
    /\ ctx = In(route)
    /\ requested = route
    /\ last = Call("init", NoRoute, In(route), NoRoute)
    /\ from_route = None
    /\ mounted = FALSE
    /\ transition = "-"
    /\ motion = <<>>
    /\ dirty = {}
    /\ effects = {}
    /\ navs = 0
    /\ animated = FALSE
    /\ engine = NoEngine

----------------------------------------------------------------------------
(* Spec: the running application *)

\* nothing left to render and no effect left to run
Idle == dirty = {} /\ effects = {}

\* the router moves to route r (a Link is followed, the URL changes)
Navigate(r) ==
    /\ Idle
    /\ navs < MaxNav
    /\ route' = r
    /\ navs' = navs + 1
    /\ dirty' = {"AnimatedRouter"}
    /\ last' = Call("navigate", r, ctx, NoRoute)
    /\ UNCHANGED <<animated, engine, build, attrs, ctx, requested, from_route, mounted, transition,
                   motion, effects>>

\* fn AnimatedRouter re-renders with use_route() = route
AnimatedRouter ==
    /\ "AnimatedRouter" \in dirty
    /\ ctx' = RouterUpdate(ctx, route)
    /\ requested' = IF route_changed(ctx, route) THEN route ELSE requested
    /\ last' = Call("AnimatedRouter", route, ctx, NoRoute)
    /\ dirty' = (dirty \ {"AnimatedRouter"})
                    \cup (IF route_changed(ctx, route) THEN {"AnimatedOutlet"} ELSE {})
    /\ animated' = (animated /\ ~route_changed(ctx, route))
    /\ UNCHANGED <<engine, build, attrs, route, from_route, mounted,
                   transition, motion, effects, navs>>

\* fn AnimatedOutlet re-renders: FromRouteToCurrent when from_route is Some,
\* the plain Outlet otherwise
AnimatedOutlet ==
    /\ "AnimatedOutlet" \in dirty
    /\ "AnimatedRouter" \notin dirty
    /\ from_route' = FromRoute(build, attrs, ctx)
    /\ last' = Call("AnimatedOutlet", NoRoute, ctx, NoRoute)
    /\ dirty' = dirty \ {"AnimatedOutlet"}
    /\ IF from_route'.some
       THEN IF mounted
            THEN \* same component, new props: hooks and effects are kept
                 UNCHANGED <<mounted, transition, motion, effects, animated>>
            ELSE /\ mounted' = TRUE
                 /\ transition' = from_route'.transition
                 /\ motion' = use_motion(build, from_route'.transition)
                 /\ effects' = {"animate", "settle"}
                 /\ animated' = FALSE
       ELSE /\ mounted' = FALSE
            /\ transition' = "-"
            /\ motion' = <<>>
            /\ effects' = {}
            /\ animated' = FALSE
    /\ UNCHANGED <<engine, build, attrs, route, ctx, requested, navs>>

\* FromRouteToCurrent's first use_effect: start the animations
AnimateEffect ==
    /\ dirty = {}
    /\ "animate" \in effects
    /\ \E dT \in 1..MaxFrames, dO \in 1..MaxFrames :
            motion' = animate_to(build, transition, dT, dO)
    /\ animated' = TRUE
    /\ effects' = (effects \ {"animate"}) \cup {"settle"}
    /\ last' = Call("animate_to", NoRoute, ctx, NoRoute)
    /\ UNCHANGED <<engine, build, attrs, route, ctx, requested, from_route, mounted,
                   transition, dirty, navs>>

\* FromRouteToCurrent's second use_effect: settle once the animation has finished
SettleEffect ==
    /\ dirty = {}
    /\ "settle" \in effects
    /\ "animate" \notin effects
    /\ effects' = effects \ {"settle"}
    /\ IF animation_finished(build, motion)
       THEN /\ ctx' = settle(ctx)
            /\ last' = Call("settle", NoRoute, ctx, NoRoute)
            /\ dirty' = {"AnimatedOutlet"}
       ELSE /\ last' = Call("is_running", NoRoute, ctx, NoRoute)
            /\ UNCHANGED <<ctx, dirty>>
    /\ UNCHANGED <<animated, engine, build, attrs, route, requested, from_route, mounted, transition,
                   motion, navs>>

\* one animation frame of the mounted component's motions
Frame ==
    /\ Idle
    /\ mounted
    /\ {m \in DOMAIN motion : is_running(motion, m)} # {}
    /\ motion' = tick(motion)
    /\ effects' = {"settle"}
    /\ last' = Call("frame", NoRoute, ctx, NoRoute)
    /\ UNCHANGED <<animated, engine, build, attrs, route, ctx, requested, from_route, mounted,
                   transition, dirty, navs>>

Next ==
    \/ \E r \in NavRoutes(build) : Navigate(r)
    \/ AnimatedRouter
    \/ AnimatedOutlet
    \/ AnimateEffect
    \/ SettleEffect
    \/ Frame

Spec == Init /\ [][Next]_vars

\* Renders and effects scheduled by the framework do run, and a running
\* animation keeps receiving frames; navigation is up to the user.
FairSpec ==
    /\ Spec
    /\ WF_vars(AnimatedRouter)
    /\ WF_vars(AnimatedOutlet)
    /\ WF_vars(AnimateEffect)
    /\ WF_vars(SettleEffect)
    /\ WF_vars(Frame)

----------------------------------------------------------------------------
(* TweenSpec: one value animated by main.rs's Tween, frame by frame *)

\* a frame is one TweenSteps-th of the Tween's duration
TweenSteps == 10

\* start and target values handed to the Tween (offsets, scales, opacities)
TweenValues == {F(-100), F(0), Half, F(1), F(100)}

\* easing results are exact fractions over d * d * d
Cube(d) == d * d * d

\* mutant: the second half of the curve without its "+ 2.0"
easing_without_offset(t, b, c, d) ==
    IF 2 * t < d
    THEN 4 * c * Cube(t) + b * Cube(d)
    ELSE 4 * c * Cube(t - d) + b * Cube(d)

\* main.rs: the Tween's easing closure |t, b, c, d|, times Cube(d)
\*     let t = t / (d / 2.0);
\*     if t < 1.0 { c / 2.0 * t * t * t + b }
\*     else { let t = t - 2.0; c / 2.0 * (t * t * t + 2.0) + b }
\* with t / (d / 2) = 2t / d:
\*     c / 2 * (2t / d)^3 + b             = (4c t^3 + b d^3) / d^3
\*     c / 2 * ((2t / d - 2)^3 + 2) + b   = (4c (t - d)^3 + (b + c) d^3) / d^3
easing(t, b, c, d) ==
    IF 2 * t < d
    THEN 4 * c * Cube(t) + b * Cube(d)
    ELSE 4 * c * Cube(t - d) + (b + c) * Cube(d)

\* animate_to(target, Tween): the instance starts running from its current value
tween_animate_to(b, target) ==
    [mode |-> "tween", b |-> b, target |-> target, elapsed |-> 0,
     eased |-> easing(0, b, target - b, TweenSteps),
     value |-> easing(0, b, target - b, TweenSteps),
     running |-> TRUE]

\* one update after dt more frames: progress = elapsed / duration clamped to
\* 1, passed through the easing; from progress 1 on the value is the target
\* itself and the instance stops
tween_update(e, dt) ==
    LET elapsed  == e.elapsed + dt
        progress == IF elapsed < TweenSteps THEN elapsed ELSE TweenSteps
        eased    == easing(progress, e.b, e.target - e.b, TweenSteps)
    IN  [e EXCEPT !.elapsed = elapsed,
                  !.eased = eased,
                  !.value = IF elapsed >= TweenSteps THEN e.target * Cube(TweenSteps)
                            ELSE eased,
                  !.running = elapsed < TweenSteps]

\* the application around the instance under study is at rest
AppAtRest ==
    /\ build = "main"
    /\ attrs = NoAttrs
    /\ route = R("Home")
    /\ ctx = In(R("Home"))
    /\ requested = R("Home")
    /\ last = Call("init", NoRoute, In(R("Home")), NoRoute)
    /\ from_route = None
    /\ mounted = FALSE
    /\ transition = "-"
    /\ motion = <<>>
    /\ dirty = {}
    /\ effects = {}
    /\ navs = 0
    /\ animated = FALSE

TweenInit ==
    /\ AppAtRest
    /\ \E b \in TweenValues, target \in TweenValues : engine = tween_animate_to(b, target)

\* a frame arrives dt steps after the previous one
TweenTick(dt) ==
    /\ engine.running
    /\ engine' = tween_update(engine, dt)
    /\ UNCHANGED <<build, attrs, route, ctx, requested, last, from_route, mounted,
                   transition, motion, dirty, effects, navs, animated>>

TweenNext == \E dt \in 1..MaxFrames : TweenTick(dt)

TweenSpec == TweenInit /\ [][TweenNext]_vars

----------------------------------------------------------------------------
(* SpringSpec: one value animated by will_hide.rs's Spring, tick by tick *)

\* fixed point: a unit of displacement is Micro steps
Micro == 10000

\* ticks per second of simulated time
TicksPerSecond == 60

\* two seconds of simulated time
TickLimit == 2 * TicksPerSecond

\* the thresholds under which displacement and velocity count as at rest:
\* 0.1, 0.01 and 0.001 of a unit
Epsilons == {Micro \div 10, Micro \div 100, Micro \div 1000}

\* mutant: the constants the source says it was tuned away from
\* ("Reduced from 180.0", "Increased from 12.0")
spring_before_tuning ==
    [stiffness |-> 180, damping |-> 12, mass |-> [num |-> 3, den |-> 2], velocity |-> 10]

\* will_hide.rs: AnimationMode::Spring(Spring { stiffness: 160.0, damping: 20.0,
\* mass: 1.5, velocity: 10.0 })
spring ==
    [stiffness |-> 160, damping |-> 20, mass |-> [num |-> 3, den |-> 2], velocity |-> 10]

Abs(n) == IF n < 0 THEN 0 - n ELSE n

\* a / b rounded to the nearest step
Round(a, b) == (2 * a + b) \div (2 * b)

\* animate_to(target, Spring): the instance starts running from value
spring_animate_to(value, target, velocity, epsilon) ==
    [mode |-> "spring", value |-> value * Micro, target |-> target * Micro,
     velocity |-> velocity * Micro, epsilon |-> epsilon, ticks |-> 0, running |-> TRUE]

\* one tick of 1 / TicksPerSecond: force = -stiffness * (value - target)
\* - damping * velocity, acceleration = force / mass, semi-implicit Euler (the
\* new velocity moves the value); the instance stops once displacement and
\* velocity are both under epsilon
spring_update(e) ==
    LET force        == 0 - spring.stiffness * (e.value - e.target)
                          - spring.damping * e.velocity
        acceleration == Round(force * spring.mass.den, spring.mass.num)
        velocity     == e.velocity + Round(acceleration, TicksPerSecond)
        value        == e.value + Round(velocity, TicksPerSecond)
    IN  [e EXCEPT !.value = value,
                  !.velocity = velocity,
                  !.ticks = e.ticks + 1,
                  !.running = ~(Abs(velocity) < e.epsilon
                                /\ Abs(value - e.target) < e.epsilon)]

\* the slides of will_hide.rs move a layer by 100 units, either way, from or
\* to rest position 0
SpringInit ==
    /\ AppAtRest
    /\ \E d \in {-100, 100}, outward \in BOOLEAN,
          velocity \in {0, spring.velocity}, epsilon \in Epsilons :
            engine = IF outward
                     THEN spring_animate_to(0, d, velocity, epsilon)
                     ELSE spring_animate_to(d, 0, velocity, epsilon)

SpringTick ==
    /\ engine.running
    /\ engine.ticks < TickLimit
    /\ engine' = spring_update(engine)
    /\ UNCHANGED <<build, attrs, route, ctx, requested, last, from_route, mounted,
                   transition, motion, dirty, effects, navs, animated>>

SpringNext == SpringTick

SpringSpec == SpringInit /\ [][SpringNext]_vars

----------------------------------------------------------------------------
(* ApiSpec: the context, the guarded update and the outlet's resolver under
   arbitrary calls, without a router or a renderer attached *)

appVars == <<route, mounted, transition, motion, dirty, effects, navs, animated>>

ApiInit ==
    /\ build \in Builds
    /\ attrs \in IF build = "main" THEN {NoAttrs} ELSE AttrTables
    /\ route = NoRoute
    /\ \E initial \in Routes :
        /\ ctx = In(initial)
        /\ requested = initial
        /\ last = Call("init", NoRoute, In(initial), NoRoute)
    /\ from_route = None
    /\ mounted = FALSE
    /\ transition = "-"
    /\ motion = <<>>
    /\ dirty = {}
    /\ effects = {}
    /\ navs = 0
    /\ animated = FALSE
    /\ engine = NoEngine

ApiSetTargetRoute(to) ==
    /\ ctx' = set_target_route(ctx, to)
    /\ requested' = to
    /\ last' = Call("set_target_route", to, ctx, NoRoute)
    /\ UNCHANGED <<engine, build, attrs, from_route, appVars>>

ApiAnimatedRouter(r) ==
    /\ ctx' = RouterUpdate(ctx, r)
    /\ requested' = IF route_changed(ctx, r) THEN r ELSE requested
    /\ last' = Call("AnimatedRouter", r, ctx, NoRoute)
    /\ UNCHANGED <<engine, build, attrs, from_route, appVars>>

ApiSettle ==
    /\ ctx' = settle(ctx)
    /\ last' = Call("settle", NoRoute, ctx, NoRoute)
    /\ UNCHANGED <<engine, build, attrs, requested, from_route, appVars>>

ApiTargetRoute ==
    /\ last' = Call("target_route", NoRoute, ctx, target_route(ctx))
    /\ UNCHANGED <<engine, build, attrs, ctx, requested, from_route, appVars>>

ApiOutlet ==
    /\ from_route' = FromRoute(build, attrs, ctx)
    /\ last' = Call("AnimatedOutlet", NoRoute, ctx, NoRoute)
    /\ UNCHANGED <<engine, build, attrs, ctx, requested, appVars>>

\* the outlet's match with the get_transition of #[transition]
ApiOutletTrait ==
    /\ from_route' = OutletTrait(ctx)
    /\ last' = Call("RouteTransition", NoRoute, ctx, NoRoute)
    /\ UNCHANGED <<engine, build, attrs, ctx, requested, appVars>>

ApiNext ==
    \/ \E to \in Routes : ApiSetTargetRoute(to)
    \/ \E r \in Routes : ApiAnimatedRouter(r)
    \/ ApiSettle
    \/ ApiTargetRoute
    \/ ApiOutlet
    \/ ApiOutletTrait

ApiSpec == ApiInit /\ [][ApiNext]_vars

\* RouterSpec: the context as the orchestrator drives it: route changes reach
\* it through AnimatedRouter's guarded update only, and settle() may be called
\* at any point
RouterNext ==
    \/ \E r \in Routes : ApiAnimatedRouter(r)
    \/ ApiSettle
    \/ ApiTargetRoute
    \/ ApiOutlet

RouterSpec == ApiInit /\ [][RouterNext]_vars

----------------------------------------------------------------------------
(* Navigation state machine: properties of the calls (ApiSpec) *)

\* the latest call was set_target_route made directly on the context
DirectSet == last.op = "set_target_route"

\* C1: set_target_route(C) on Transitioning(A, B) with C # B yields
\* Transitioning(B, C): the previous destination becomes the departure point,
\* and the old departure point A is not kept (the result differs from
\* Transitioning(A, C) whenever A # B).
C1_Retarget ==
    (DirectSet /\ last.pre.tag = "FromTo" /\ last.arg # last.pre.to)
        => /\ ctx = FromTo(last.pre.to, last.arg)
           /\ (last.pre.from # last.pre.to => ctx # FromTo(last.pre.from, last.arg))

C1_Witness ==
    /\ DirectSet
    /\ last.pre.tag = "FromTo"
    /\ last.pre.from # last.pre.to
    /\ last.arg \notin {last.pre.from, last.pre.to}
    /\ ctx = FromTo(last.pre.to, last.arg)

\* C2 as stated: calling set_target_route(r) on a state whose target is r
\* leaves the state unchanged.
C2_SetTargetRouteIdempotent ==
    (DirectSet /\ last.arg = target_route(last.pre)) => ctx = last.pre

\* C2 amended: the guarded update of AnimatedRouter leaves the state unchanged
\* when the router's route is already the target (Settled(r) stays Settled(r),
\* Transitioning(f, r) stays Transitioning(f, r)); set_target_route itself,
\* called with the current target r, yields Transitioning(r, r).
C2_GuardedUpdateIdempotent ==
    /\ (last.op = "AnimatedRouter" /\ last.arg = target_route(last.pre))
            => ctx = last.pre
    /\ (DirectSet /\ last.arg = target_route(last.pre))
            => ctx = FromTo(last.arg, last.arg)

C2_Witness ==
    /\ last.op = "AnimatedRouter"
    /\ last.pre.tag = "FromTo"
    /\ last.pre.from # last.pre.to
    /\ last.arg = last.pre.to
    /\ ctx = last.pre

\* C3: set_target_route(new) on Settled(old) with new # old yields
\* Transitioning(old, new).
C3_FromSettled ==
    (DirectSet /\ last.pre.tag = "In" /\ last.arg # last.pre.to)
        => ctx = FromTo(last.pre.to, last.arg)

C3_Witness ==
    /\ DirectSet
    /\ last.pre.tag = "In"
    /\ last.arg # last.pre.to
    /\ ctx.tag = "FromTo"
    /\ ctx.from = last.pre.to
    /\ ctx.to = last.arg

\* C4: settle() on Transitioning(A, B) yields Settled(B); settle() on
\* Settled(X) leaves Settled(X).
C4_Settle ==
    last.op = "settle"
        => /\ last.pre.tag = "FromTo" => ctx = In(last.pre.to)
           /\ last.pre.tag = "In" => ctx = last.pre
           /\ settle(ctx) = ctx

C4_Witness ==
    /\ last.op = "settle"
    /\ last.pre.tag = "FromTo"
    /\ last.pre.from # last.pre.to
    /\ ctx = In(last.pre.to)

\* C5: after any sequence of set_target_route and settle calls from
\* Settled(initial), target_route() is the argument of the latest
\* set_target_route (the initial route if there was none), and so is `to` of
\* a Transitioning state.
C5_TargetIsLatestRequest ==
    /\ target_route(ctx) = requested
    /\ ctx.tag = "FromTo" => ctx.to = requested
    /\ last.op = "target_route" => last.ret = requested

C5_Witness ==
    /\ DirectSet
    /\ last.pre.tag = "FromTo"
    /\ last.pre.from # last.pre.to
    /\ last.arg # last.pre.to
    /\ requested = last.arg
    /\ ctx.tag = "FromTo"
    /\ ctx.to = requested

\* C10: target_route() always returns a route: `to` of Transitioning(from, to),
\* r of Settled(r); it does not return `from` unless from = to.
C10_TargetRoute ==
    last.op = "target_route"
        => /\ last.ret \in Routes
           /\ last.ret = last.pre.to
           /\ (last.pre.tag = "FromTo" /\ last.pre.from # last.pre.to)
                  => last.ret # last.pre.from

C10_Witness ==
    /\ last.op = "target_route"
    /\ last.pre.tag = "FromTo"
    /\ last.pre.from # last.pre.to
    /\ last.ret = last.pre.to

----------------------------------------------------------------------------
(* The running application: settling and the transition policy (Spec, FairSpec) *)

\* C6: every transition eventually settles: once the state is
\* Transitioning(from, to), for any ordered pair of routes, it becomes
\* Settled(to) unless another navigation event arrives first.
C6_EventuallySettles ==
    \A f \in Routes, t \in Routes :
        (ctx = FromTo(f, t)) ~> (ctx = In(t) \/ last.op = "navigate")


\* C7: a Transitioning state becomes Settled only by settle(), which lands on
\* its destination; otherwise it is left only by re-targeting, which makes the
\* old destination the new departure point. Navigation events, frames, renders
\* of the outlet and the start of an animation leave it as it is.
C7_OnlySettleSettles ==
    [][ (ctx.tag = "FromTo" /\ ctx' # ctx)
            => \/ /\ last'.op = "settle"
                  /\ ctx' = In(ctx.to)
               \/ /\ last'.op = "AnimatedRouter"
                  /\ last'.arg # ctx.to
                  /\ ctx' = FromTo(ctx.to, last'.arg) ]_vars

C7_Witness ==
    /\ last.op = "settle"
    /\ last.pre.tag = "FromTo"
    /\ ctx = In(last.pre.to)
    /\ navs > 1

\* the variants the compiled build can name
Variants(b) == IF b = "main" THEN MainVariants ELSE WillHideVariants

\* a transition for which the policy holds no explicit entry
Unmapped(b, table, c) ==
    IF b = "main"
    THEN <<c.from, c.to>> \notin MappedPairs
    ELSE table[c.to.variant].kind # "path"

\* C8: for every ordered pair of routes the outlet resolves a variant, and
\* that variant is Fade when the pair (or route) has no explicit mapping.
C8_PolicyTotalWithDefault ==
    (last.op = "AnimatedOutlet" /\ last.pre.tag = "FromTo")
        => /\ from_route.some
           /\ from_route.transition \in Variants(build)
           /\ Unmapped(build, attrs, last.pre) => from_route.transition = "Fade"

Opposite(v) ==
    CASE v = "SlideLeft"  -> "SlideRight"
      [] v = "SlideRight" -> "SlideLeft"
      [] v = "SlideUp"    -> "SlideDown"
      [] v = "SlideDown"  -> "SlideUp"

\* C9: in the pair-based outlet, Home -> X resolves to the variant named X and
\* X -> Home to the opposite direction for the four slide routes; for Fade and
\* Scale both directions resolve to the same variant.
C9_DirectionSensitive ==
    (build = "main" /\ last.op = "AnimatedOutlet")
        => /\ \A x \in {"SlideLeft", "SlideRight", "SlideUp", "SlideDown"} :
                /\ last.pre = FromTo(R("Home"), R(x))
                        => from_route = Some(R("Home"), x)
                /\ last.pre = FromTo(R(x), R("Home"))
                        => from_route = Some(R(x), Opposite(x))
           /\ \A x \in {"Fade", "Scale"} :
                /\ last.pre = FromTo(R("Home"), R(x))
                        => from_route = Some(R("Home"), x)
                /\ last.pre = FromTo(R(x), R("Home"))
                        => from_route = Some(R(x), x)

C9_Witness ==
    /\ build = "main"
    /\ last.op = "AnimatedOutlet"
    /\ last.pre = FromTo(R("SlideUp"), R("Home"))
    /\ from_route.transition = "SlideDown"
    /\ mounted

----------------------------------------------------------------------------
(* C11 - pass-through when settled (Spec) *)

\* the outlet has just rendered from a Settled state
OutletRenderedSettled == last.op = "AnimatedOutlet" /\ last.pre.tag = "In"

\* C11: when the outlet renders a Settled state it returns the plain Outlet
\* (from_route is None, no FromRouteToCurrent is mounted, no motion exists);
\* it returns the animated wrapper only from a Transitioning state, and the
\* wrapper stays mounted into a Settled state only until the re-render that
\* settle() has scheduled.
C11_PassThroughWhenSettled ==
    /\ OutletRenderedSettled => (~from_route.some /\ ~mounted /\ motion = <<>>)
    /\ (last.op = "AnimatedOutlet" /\ mounted) => last.pre.tag = "FromTo"
    /\ (mounted /\ ctx.tag = "In") => "AnimatedOutlet" \in dirty

\* a transition was animated and settled, and the outlet has rendered the
\* settled state
C11_Witness == OutletRenderedSettled /\ navs > 0 /\ ctx = In(route)

----------------------------------------------------------------------------
(* C12 - Tween boundary values (TweenSpec) *)

\* C12: at elapsed time 0 the animated value is exactly the start value b; once
\* the cumulative elapsed time reaches the duration, and for any elapsed time
\* beyond it, the value is exactly the target b + c, the easing itself lands
\* on b + c at t = d, and the instance no longer runs.
C12_TweenBoundary ==
    /\ engine.elapsed = 0 =>
            /\ engine.value = engine.b * Cube(TweenSteps)
            /\ engine.running
    /\ engine.elapsed >= TweenSteps =>
            /\ engine.value = engine.target * Cube(TweenSteps)
            /\ engine.eased = engine.target * Cube(TweenSteps)
            /\ ~engine.running

\* a Tween that moved by a non-zero amount and overran its duration
C12_Witness ==
    /\ engine.elapsed > TweenSteps
    /\ engine.b # engine.target
    /\ ~engine.running

----------------------------------------------------------------------------
(* C13 - the preset Spring converges (SpringSpec) *)

\* C13: with stiffness 160, damping 20 and mass 1.5, a value started 100
\* units from its target stops running in fewer than two seconds of simulated
\* time at 60 ticks per second.
C13_SpringConverges == engine.running => engine.ticks < TickLimit

\* a spring that has come to rest at its target after more than a second
C13_Witness ==
    /\ ~engine.running
    /\ engine.ticks > TicksPerSecond
    /\ Abs(engine.value - engine.target) < engine.epsilon

----------------------------------------------------------------------------
(* C14 - settle() only when every started instance has stopped (Spec) *)

\* the settling effect has just called settle()
SettleCalled == last.op = "settle"

\* C14: settle() is called only in a frame in which every motion value the
\* component started (main.rs: transform and opacity; will_hide.rs: both layer
\* transforms and both opacities) reports not running.
C14_SettleOnlyWhenAllStopped ==
    SettleCalled => \A m \in DOMAIN motion : ~is_running(motion, m)

----------------------------------------------------------------------------
(* C15 - re-targeting restarts the animation (Spec) *)

\* the mounted component has run its pending renders and its first effect
Animating ==
    mounted /\ ctx.tag = "FromTo" /\ dirty = {} /\ "animate" \notin effects

\* C15: once a transition (first or re-targeted) is being animated, the motion
\* values were started by an animate_to that ran after the latest target
\* change, they head for the targets of the variant resolved for the current
\* pair, and a settle() that ends a transition comes from values started for
\* that transition.
C15_RetargetRestarts ==
    /\ Animating =>
            /\ animated
            /\ transition = from_route.transition
            /\ \A m \in DOMAIN motion :
                    motion[m].target = target_value(build, from_route.transition, m)
    /\ (SettleCalled /\ last.pre.tag = "FromTo") => animated

----------------------------------------------------------------------------
(* C16 - settle() exactly once per transition (FairSpec) *)

\* C16: a transition that is not re-targeted is settled by one call of
\* settle(): the call comes (at least once), it is made on a Transitioning
\* state and changes it (settle() is never called again on the Settled state),
\* and once the outlet has rendered the settled state no motion value and no
\* effect is left to do further work.
C16_SettledExactlyOnce ==
    /\ (ctx.tag = "FromTo") ~> (SettleCalled \/ last.op = "navigate")
    /\ [](SettleCalled => (last.pre.tag = "FromTo" /\ ctx = In(last.pre.to)))
    /\ []((ctx.tag = "In" /\ dirty = {}) => (motion = <<>> /\ effects = {}))

\* the part of C16 that is about calls that are made: at most one, and
\* nothing afterwards
C16_AtMostOnce ==
    /\ SettleCalled => (last.pre.tag = "FromTo" /\ ctx = In(last.pre.to))
    /\ (ctx.tag = "In" /\ dirty = {}) => (motion = <<>> /\ effects = {})

----------------------------------------------------------------------------
(* C17 - navigation is applied before the state is observed (Spec) *)

\* the outlet has just read the navigation state, or FromRouteToCurrent's
\* settling effect has just run against it
StateObserved == last.op \in {"AnimatedOutlet", "is_running", "settle"}

\* C17: whenever the outlet or the transition component observes the
\* navigation state, AnimatedRouter has already applied the router's current
\* route to it: the target of the observed state is the router's route.
C17_NavigationBeforeSampling ==
    StateObserved => target_route(last.pre) = route

\* the outlet reads a state that was re-targeted by a second navigation
C17_Witness ==
    /\ last.op = "AnimatedOutlet"
    /\ last.pre.tag = "FromTo"
    /\ last.pre.from # last.pre.to
    /\ last.pre.to = route
    /\ navs > 1

----------------------------------------------------------------------------
(* C18 - the slide configuration table (Spec) *)

SlideVariants == {"SlideLeft", "SlideRight", "SlideUp", "SlideDown"}

\* the offset each slide gives the departing layer, in whole units
SlideOffset(v) ==
    CASE v = "SlideLeft"  -> [x |-> -100, y |-> 0]
      [] v = "SlideRight" -> [x |-> 100, y |-> 0]
      [] v = "SlideUp"    -> [x |-> 0, y |-> -100]
      [] v = "SlideDown"  -> [x |-> 0, y |-> 100]

\* a slide is being animated by the mounted component
SlideStarted == mounted /\ animated /\ transition \in SlideVariants

\* C18: for each slide variant the configuration the component animates with
\* has initial_from = final_to = identity, final_from moved by exactly 100 on
\* one axis (SlideLeft x = -100, SlideRight x = +100, SlideUp y = -100,
\* SlideDown y = +100) at scale 1, and initial_to its mirror image; main.rs's
\* get_transform gives the same final offset at scale 1.
C18_SlideConfigTable ==
    SlideStarted =>
        IF build = "will_hide"
        THEN /\ motion["from_transform"].initial = Identity
             /\ motion["to_transform"].target = Identity
             /\ motion["from_transform"].target.x = F(SlideOffset(transition).x)
             /\ motion["from_transform"].target.y = F(SlideOffset(transition).y)
             /\ motion["from_transform"].target.scale = F(1)
             /\ motion["to_transform"].initial.x = F(0 - SlideOffset(transition).x)
             /\ motion["to_transform"].initial.y = F(0 - SlideOffset(transition).y)
             /\ motion["to_transform"].initial.scale = F(1)
        ELSE /\ motion["transform"].target.x = F(SlideOffset(transition).x)
             /\ motion["transform"].target.y = F(SlideOffset(transition).y)
             /\ motion["transform"].target.scale = F(1)
             /\ get_transform(transition) = motion["transform"].target

\* will_hide.rs animates SlideLeft: final_from = {x: -100, y: 0, scale: 1}
C18_Witness ==
    /\ SlideStarted
    /\ build = "will_hide"
    /\ transition = "SlideLeft"
    /\ motion["from_transform"].target = Transform(F(-100), F(0), F(1), F(1))

----------------------------------------------------------------------------
(* C19 - Fade and Scale endpoints (Spec) *)

TransformNames == {"transform", "from_transform", "to_transform"}

\* the mounted component is animating variant v
Started(v) == mounted /\ animated /\ transition = v

\* a transform value that neither starts nor ends off its place
NoTranslation(m) ==
    /\ m.initial.x = F(0) /\ m.initial.y = F(0)
    /\ m.target.x = F(0) /\ m.target.y = F(0)

\* C19: for Fade the departing layer's opacity goes from 1 to 0 and the
\* arriving layer's from 0 to 1, no transform is translated and, opacity being
\* the only thing that changes, every transform ends at the scale it starts
\* with; for Scale the transform ends at scale 0.5 without translation.
C19_FadeAndScaleEndpoints ==
    /\ Started("Fade") =>
            /\ \A m \in DOMAIN motion \cap TransformNames :
                    NoTranslation(motion[m]) /\ motion[m].target.scale = motion[m].initial.scale
            /\ \A m \in DOMAIN motion \cap {"opacity", "from_opacity"} :
                    motion[m].initial = F(1) /\ motion[m].target = F(0)
            /\ \A m \in DOMAIN motion \cap {"to_opacity"} :
                    motion[m].initial = F(0) /\ motion[m].target = F(1)
    /\ Started("Scale") =>
            \A m \in DOMAIN motion \cap TransformNames :
                    NoTranslation(motion[m]) /\ motion[m].target.scale = Half

\* the same statement for the builds' parts that meet it: will_hide.rs's Fade
\* and main.rs's Scale
C19_ExceptMainFade ==
    (build = "will_hide" \/ transition = "Scale") => C19_FadeAndScaleEndpoints

----------------------------------------------------------------------------
(* C20 - one transform per layer on each transition start (Spec) *)

\* the from layer and the to layer each have their own transform, started
\* for the current transition on the configuration of variant v
LayersStarted(v) ==
    /\ mounted
    /\ animated
    /\ {"from_transform", "to_transform"} \subseteq DOMAIN motion
    /\ motion["from_transform"].initial = get_config(v).initial_from
    /\ motion["from_transform"].target = get_config(v).final_from
    /\ motion["to_transform"].initial = get_config(v).initial_to
    /\ motion["to_transform"].target = get_config(v).final_to

\* C20: for each transition the component animates (first or re-targeted),
\* once its renders and its first effect have run, there is a transform instance for the
\* departing layer, started at initial_from and heading to final_from, and a
\* separate one for the arriving layer, started at initial_to and heading to
\* final_to, of the configuration resolved for that transition.
C20_TransformPerLayer ==
    Animating => LayersStarted(from_route.transition)

\* the same statement for will_hide.rs and a transition started from a
\* settled state, which the component is mounted for
C20_WillHideOnMount ==
    (Animating /\ build = "will_hide" /\ animated) => LayersStarted(from_route.transition)

----------------------------------------------------------------------------
(* C21 - no self-transition under the orchestrator (RouterSpec) *)

\* C21: in every state reachable from Settled(initial) by route changes
\* applied through AnimatedRouter and by settle() calls, in any order, a
\* Transitioning(from, to) state has from # to.
C21_NoSelfTransition == ctx.tag = "FromTo" => ctx.from # ctx.to

\* AnimatedRouter rendered in a Transitioning state with the route that is
\* already its target, and wrote nothing
C21_Witness ==
    /\ last.op = "AnimatedRouter"
    /\ last.pre.tag = "FromTo"
    /\ last.arg = last.pre.to
    /\ ctx = last.pre

----------------------------------------------------------------------------
(* C22 - settle() never changes the destination (ApiSpec) *)

\* C22: for every state, target_route() after settle() is target_route()
\* before it; whenever settle() is called among set_target_route calls, the
\* state it leaves is Settled on the most recently requested route.
C22_SettleKeepsTarget ==
    last.op = "settle"
        => /\ target_route(ctx) = target_route(last.pre)
           /\ target_route(ctx) = requested
           /\ ctx = In(requested)

\* settle() ends a transition between two different routes on the requested one
C22_Witness ==
    /\ last.op = "settle"
    /\ last.pre.tag = "FromTo"
    /\ last.pre.from # last.pre.to
    /\ last.pre.to = requested
    /\ target_route(ctx) = requested

----------------------------------------------------------------------------
(* C23 - the macro-driven variant depends on the destination only (ApiSpec) *)

\* will_hide.rs's outlet has just resolved a Transitioning state
MacroResolved ==
    last.op = "AnimatedOutlet" /\ build = "will_hide" /\ last.pre.tag = "FromTo"

\* the outlet has just resolved a Transitioning state with #[transition]'s impl
TraitResolved == last.op = "RouteTransition" /\ last.pre.tag = "FromTo"

\* C23: the variant the macro-driven outlet resolves for Transitioning(from, to)
\* is the one it resolves for Transitioning(f, to) for every other departing
\* route f, with either macro's get_transition; in particular the reversed
\* pair gets the variant of its own destination, whatever the forward one was.
C23_DestinationOnly ==
    /\ MacroResolved =>
            /\ \A f \in Routes :
                    OutletMacro(attrs, FromTo(f, last.pre.to)).transition
                        = from_route.transition
            /\ \A f \in Routes :
                    OutletMacro(attrs, FromTo(last.pre.to, last.pre.from)).transition
                        = OutletMacro(attrs, FromTo(f, last.pre.from)).transition
    /\ TraitResolved =>
            \A f \in Routes :
                    OutletTrait(FromTo(f, last.pre.to)).transition = from_route.transition

\* Home -> SlideLeft resolves SlideLeft, and the way back does not invert it:
\* it resolves Home's own variant
C23_Witness ==
    /\ MacroResolved
    /\ last.pre = FromTo(R("Home"), R("SlideLeft"))
    /\ from_route.transition = "SlideLeft"
    /\ OutletMacro(attrs, FromTo(R("SlideLeft"), R("Home"))).transition # Opposite("SlideLeft")

====
